---- MODULE Spec2Model ----
(***************************************************************************)
(* Model of the TibiaSweden EQ catalog builder (tools/build_eq_items.py):  *)
(* the page classifier and attribute extractor as operators over character *)
(* sequences, and the resumable batch crawl as a state machine over the    *)
(* three persisted files (titles, state, items).                           *)
(***************************************************************************)
EXTENDS Integers, Sequences, FiniteSets, TLC

(***************************************************************************)
(* Strings are sequences of one-character strings.                         *)
(***************************************************************************)
UpperChars ==
    <<"A", "B", "C", "D", "E", "F", "G", "H", "I", "J", "K", "L", "M",
      "N", "O", "P", "Q", "R", "S", "T", "U", "V", "W", "X", "Y", "Z">>

LowerChars ==
    <<"a", "b", "c", "d", "e", "f", "g", "h", "i", "j", "k", "l", "m",
      "n", "o", "p", "q", "r", "s", "t", "u", "v", "w", "x", "y", "z">>

DigitChars ==
    <<"0", "1", "2", "3", "4", "5", "6", "7", "8", "9">>

Range(s) ==
    {s[k] : k \in DOMAIN s}

\* str.lower() / re.IGNORECASE on one character
LowerChar(c) ==
    IF \E k \in DOMAIN UpperChars : UpperChars[k] = c
    THEN LowerChars[CHOOSE k \in DOMAIN UpperChars : UpperChars[k] = c]
    ELSE c

\* str.lower()
Lower(s) ==
    [k \in DOMAIN s |-> LowerChar(s[k])]

IsDigit(c) ==
    c \in Range(DigitChars)

\* the regex class \w
IsWordChar(c) ==
    c \in Range(UpperChars) \cup Range(LowerChars) \cup Range(DigitChars) \cup {"_"}

\* the regex class \s
IsSpace(c) ==
    c \in {" ", "\t", "\n"}

DigitVal(c) ==
    (CHOOSE k \in DOMAIN DigitChars : DigitChars[k] = c) - 1

S_Hitpoints ==
    <<"H", "i", "t", "p", "o", "i", "n", "t", "s">>
S_ExperiencePoints ==
    <<"E", "x", "p", "e", "r", "i", "e", "n", "c", "e", " ", "P", "o", "i", "n", "t", "s">>
S_Bestiary ==
    <<"B", "e", "s", "t", "i", "a", "r", "y">>
S_Creature ==
    <<"C", "r", "e", "a", "t", "u", "r", "e">>
S_Imbuement ==
    <<"I", "m", "b", "u", "e", "m", "e", "n", "t">>
S_Imbuements ==
    <<"I", "m", "b", "u", "e", "m", "e", "n", "t", "s">>
S_ItWeighs ==
    <<"I", "t", " ", "w", "e", "i", "g", "h", "s">>
S_YouSee ==
    <<"Y", "o", "u", " ", "s", "e", "e">>
S_Arm ==
    <<"A", "r", "m", ":">>
S_Protection ==
    <<"P", "r", "o", "t", "e", "c", "t", "i", "o", "n">>
S_protection ==
    <<"p", "r", "o", "t", "e", "c", "t", "i", "o", "n">>
S_physical ==
    <<"p", "h", "y", "s", "i", "c", "a", "l">>
S_fire ==
    <<"f", "i", "r", "e">>
S_ice ==
    <<"i", "c", "e">>
S_energy ==
    <<"e", "n", "e", "r", "g", "y">>
S_earth ==
    <<"e", "a", "r", "t", "h">>
S_death ==
    <<"d", "e", "a", "t", "h">>
S_holy ==
    <<"h", "o", "l", "y">>
S_empty_slot ==
    <<"e", "m", "p", "t", "y", " ", "s", "l", "o", "t">>
S_of_level ==
    <<"o", "f", " ", "l", "e", "v", "e", "l">>
S_or_higher ==
    <<"o", "r", " ", "h", "i", "g", "h", "e", "r">>
S_wielded ==
    <<"o", "n", "l", "y", " ", "b", "e", " ", "w", "i", "e", "l", "d", "e", "d", " ", "p", "r", "o", "p", "e", "r", "l", "y", " ", "b", "y">>
S_knight ==
    <<"k", "n", "i", "g", "h", "t">>
S_paladin ==
    <<"p", "a", "l", "a", "d", "i", "n">>
S_druid ==
    <<"d", "r", "u", "i", "d">>
S_sorcerer ==
    <<"s", "o", "r", "c", "e", "r", "e", "r">>
S_monk ==
    <<"m", "o", "n", "k">>
S_BASE ==
    <<"h", "t", "t", "p", "s", ":", "/", "/", "t", "i", "b", "i", "a", ".", "f", "a", "n", "d", "o", "m", ".", "c", "o", "m">>
S_wiki ==
    <<"/", "w", "i", "k", "i", "/">>
S_File ==
    <<"F", "i", "l", "e", ":">>
S_Category ==
    <<"C", "a", "t", "e", "g", "o", "r", "y", ":">>
S_Special ==
    <<"S", "p", "e", "c", "i", "a", "l", ":">>
S_Template ==
    <<"T", "e", "m", "p", "l", "a", "t", "e", ":">>
S_Help ==
    <<"H", "e", "l", "p", ":">>
S_Talk ==
    <<"T", "a", "l", "k", ":">>
S_TibiaWiki ==
    <<"T", "i", "b", "i", "a", "W", "i", "k", "i", ":">>
S_Main_Page ==
    <<"M", "a", "i", "n", "_", "P", "a", "g", "e">>

\* literal lit occurs in s at position i, ignoring case
MatchLit(s, i, lit) ==
    /\ i >= 1
    /\ i + Len(lit) - 1 <= Len(s)
    /\ \A k \in DOMAIN lit : LowerChar(s[i + k - 1]) = LowerChar(lit[k])

\* literal lit occurs in s at position i, case-exact (str.startswith, "in")
MatchExact(s, i, lit) ==
    /\ i >= 1
    /\ i + Len(lit) - 1 <= Len(s)
    /\ \A k \in DOMAIN lit : s[i + k - 1] = lit[k]

\* Python "lit in s"
Contains(s, lit) ==
    \E i \in 1..(Len(s) + 1) : MatchExact(s, i, lit)

WordAt(s, i) ==
    i >= 1 /\ i <= Len(s) /\ IsWordChar(s[i])

\* the regex assertion \b between characters i-1 and i
Boundary(s, i) ==
    WordAt(s, i - 1) # WordAt(s, i)

\* re.search(r"\blit\b", s, re.I)
SearchWord(s, lit) ==
    \E i \in 1..Len(s) :
        Boundary(s, i) /\ MatchLit(s, i, lit) /\ Boundary(s, i + Len(lit))

looks_like_creature(page_text) ==
    \/ SearchWord(page_text, S_Hitpoints)
    \/ SearchWord(page_text, S_ExperiencePoints)
    \/ SearchWord(page_text, S_Bestiary)
    \/ SearchWord(page_text, S_Creature)

looks_like_item(page_text) ==
    \/ SearchWord(page_text, S_Imbuement)
    \/ SearchWord(page_text, S_Imbuements)
    \/ SearchWord(page_text, S_ItWeighs)
    \/ SearchWord(page_text, S_YouSee)
    \/ SearchWord(page_text, S_Arm)
    \/ SearchWord(page_text, S_Protection)

ELEMENTS ==
    <<"physical", "fire", "ice", "energy", "earth", "death", "holy">>

ElementLits ==
    <<S_physical, S_fire, S_ice, S_energy, S_earth, S_death, S_holy>>

\* first position >= i that does not hold a whitespace character (\s*)
RECURSIVE SkipSpace(_, _)
SkipSpace(s, i) ==
    IF i <= Len(s) /\ IsSpace(s[i]) THEN SkipSpace(s, i + 1) ELSE i

\* first position >= i that does not hold a digit (\d+, greedy)
RECURSIVE SkipDigits(_, _)
SkipDigits(s, i) ==
    IF i <= Len(s) /\ IsDigit(s[i]) THEN SkipDigits(s, i + 1) ELSE i

\* int() of the digits s[i..j-1]
RECURSIVE DigitsValue(_, _, _)
DigitsValue(s, i, j) ==
    IF j <= i THEN 0 ELSE DigitsValue(s, i, j - 1) * 10 + DigitVal(s[j - 1])

NoMatch ==
    [ok |-> FALSE, end |-> 0, el |-> "", val |-> 0]

\* (physical|...|holy)\s*([+-]?\d+)\s*% tried at position j
ProtTailAt(s, j) ==
    IF \E e \in DOMAIN ElementLits : MatchLit(s, j, ElementLits[e])
    THEN LET e  == CHOOSE e \in DOMAIN ElementLits : MatchLit(s, j, ElementLits[e])
             k  == SkipSpace(s, j + Len(ElementLits[e]))
             sg == k <= Len(s) /\ s[k] \in {"+", "-"}
             d  == IF sg THEN k + 1 ELSE k
             d2 == SkipDigits(s, d)
             p  == SkipSpace(s, d2)
         IN  IF d2 > d /\ p <= Len(s) /\ s[p] = "%"
             THEN [ok |-> TRUE, end |-> p + 1, el |-> ELEMENTS[e],
                   val |-> IF sg /\ s[k] = "-" THEN 0 - DigitsValue(s, d, d2)
                           ELSE DigitsValue(s, d, d2)]
             ELSE NoMatch
    ELSE NoMatch

\* PROT_RE.match at position i: the optional "protection\s+" first, then without
ProtMatchAt(s, i) ==
    LET j    == SkipSpace(s, i + Len(S_protection))
        pre == IF MatchLit(s, i, S_protection) /\ j > i + Len(S_protection)
                THEN ProtTailAt(s, j) ELSE NoMatch
    IN  IF pre.ok THEN pre ELSE ProtTailAt(s, i)

EmptyRes ==
    [e \in {} |-> 0]

\* the first value of an element is kept
ResPut_FirstWins(res, el, val) ==
    [e \in DOMAIN res \cup {el} |-> IF e \in DOMAIN res THEN res[e] ELSE val]

\* res[el] = val
ResPut(res, el, val) ==
    [e \in DOMAIN res \cup {el} |-> IF e = el THEN val ELSE res[e]]

\* for m in PROT_RE.finditer(text): res[el] = val
RECURSIVE ExtractRes(_, _, _)
ExtractRes(s, pos, res) ==
    IF pos > Len(s) THEN res
    ELSE LET m == ProtMatchAt(s, pos)
         IN  IF m.ok
             THEN ExtractRes(s, m.end,
                             IF m.el \in Range(ELEMENTS) THEN ResPut(res, m.el, m.val) ELSE res)
             ELSE ExtractRes(s, pos + 1, res)

\* low.count(lit): non-overlapping occurrences, left to right
RECURSIVE CountLit(_, _, _)
CountLit(s, pos, lit) ==
    IF pos + Len(lit) - 1 > Len(s) THEN 0
    ELSE IF MatchExact(s, pos, lit) THEN 1 + CountLit(s, pos + Len(lit), lit)
         ELSE CountLit(s, pos + 1, lit)

NoLevel ==
    -1

\* r"of level\s+(\d+)\s+or higher" tried at position i
LevelMatchAt(s, i) ==
    LET a == i + Len(S_of_level)
        b == SkipSpace(s, a)
        c == SkipDigits(s, b)
        d == SkipSpace(s, c)
    IN  IF MatchLit(s, i, S_of_level) /\ b > a /\ c > b /\ d > c
           /\ MatchLit(s, d, S_or_higher)
        THEN DigitsValue(s, b, c) ELSE NoLevel

\* re.search: the leftmost match
ExtractLevel(s) ==
    IF \E i \in 1..Len(s) : LevelMatchAt(s, i) # NoLevel
    THEN LET i == CHOOSE i \in 1..Len(s) :
                      /\ LevelMatchAt(s, i) # NoLevel
                      /\ \A h \in 1..(i - 1) : LevelMatchAt(s, h) = NoLevel
         IN  LevelMatchAt(s, i)
    ELSE NoLevel

ExtractVoc(s) ==
    LET low == Lower(s)
        v   == (IF Contains(low, S_knight) THEN <<"KNIGHT">> ELSE <<>>)
               \o (IF Contains(low, S_paladin) THEN <<"PALADIN">> ELSE <<>>)
               \o (IF Contains(low, S_druid) THEN <<"DRUID">> ELSE <<>>)
               \o (IF Contains(low, S_sorcerer) THEN <<"SORCERER">> ELSE <<>>)
               \o (IF Contains(low, S_monk) THEN <<"MONK">> ELSE <<>>)
    IN  IF Contains(low, S_wielded)
        THEN (IF v # <<>> THEN v ELSE <<"ANY">>)
        ELSE <<"ANY">>

\* the guard with "and" for "or": only a creature page without item marker is stopped
PassesGuard_And(text) ==
    ~(looks_like_creature(text) /\ ~looks_like_item(text))

\* the guard of parse_item: the page is let through as an item
PassesGuard(text) ==
    ~(looks_like_creature(text) \/ ~looks_like_item(text))

NoneMeta ==
    [none |-> TRUE]

\* parse_item after the fetch: None, or the extracted record
parse_item(text) ==
    IF ~PassesGuard(text) THEN NoneMeta
    ELSE [none       |-> FALSE,
          res        |-> ExtractRes(text, 1, EmptyRes),
          imbueSlots |-> CountLit(Lower(text), 1, S_empty_slot),
          level      |-> ExtractLevel(text),
          voc        |-> ExtractVoc(text)]

(***************************************************************************)
(* Titles, hrefs and the canonical source URL.                             *)
(***************************************************************************)
\* the characters used by the model's titles and hrefs, in code point order
AsciiOrder ==
    <<" ", "#", "%", ".", "/">> \o DigitChars \o <<":">> \o UpperChars
        \o <<"_">> \o LowerChars

Ord(c) ==
    CHOOSE k \in DOMAIN AsciiOrder : AsciiOrder[k] = c

\* Python's str "<": lexicographic by code point
StrLess(a, b) ==
    \E k \in 1..(Len(b)) :
        /\ \A h \in 1..(k - 1) : h <= Len(a) /\ a[h] = b[h]
        /\ \/ k = Len(a) + 1
           \/ k <= Len(a) /\ Ord(a[k]) < Ord(b[k])

\* sorted(S) for a set of strings
RECURSIVE Sorted(_)
Sorted(S) ==
    IF S = {} THEN <<>>
    ELSE LET m == CHOOSE m \in S : \A o \in S \ {m} : StrLess(m, o)
         IN  <<m>> \o Sorted(S \ {m})

\* urllib.parse.quote on one character: unreserved characters and "/" are kept
QuoteChar(c) ==
    IF IsWordChar(c) \/ c \in {".", "-", "~", "/"} THEN <<c>>
    ELSE CASE c = " " -> <<"%", "2", "0">>
           [] c = "#" -> <<"%", "2", "3">>
           [] c = "%" -> <<"%", "2", "5">>
           [] c = ":" -> <<"%", "3", "A">>

RECURSIVE quote(_)
quote(t) ==
    IF t = <<>> THEN <<>> ELSE QuoteChar(Head(t)) \o quote(Tail(t))

\* src = f"{BASE}/wiki/{quote(t)}"
SourceOf(t) ==
    S_BASE \o S_wiki \o quote(t)

\* t.replace("_", " ")
NameOf(t) ==
    [k \in DOMAIN t |-> IF t[k] = "_" THEN " " ELSE t[k]]

\* str.strip()
RECURSIVE Strip(_)
Strip(s) ==
    IF s = <<>> THEN s
    ELSE IF IsSpace(Head(s)) THEN Strip(Tail(s))
    ELSE IF IsSpace(s[Len(s)]) THEN Strip(SubSeq(s, 1, Len(s) - 1))
    ELSE s

BadPrefixes ==
    {S_File, S_Category, S_Special, S_Template, S_Help, S_Talk, S_TibiaWiki}

\* title.split("#", 1)[0]
BeforeHash(s) ==
    IF \E k \in DOMAIN s : s[k] = "#"
    THEN SubSeq(s, 1, (CHOOSE k \in DOMAIN s :
                          s[k] = "#" /\ \A h \in 1..(k - 1) : s[h] # "#") - 1)
    ELSE s

\* title_from_href; the empty string stands for None (both fail "if not t")
title_from_href(href) ==
    IF ~MatchExact(href, 1, S_wiki) THEN <<>>
    ELSE LET title == BeforeHash(SubSeq(href, Len(S_wiki) + 1, Len(href)))
         IN  IF \E p \in BadPrefixes : MatchExact(title, 1, p) THEN <<>>
             ELSE IF title = S_Main_Page THEN <<>>
             ELSE title

NoSlot ==
    "None"

\* SEEDS, abridged to two slot pages and one set page
SEEDS ==
    <<[slot |-> "helmet", page |-> "Helmets"],
      [slot |-> "armor", page |-> "Armors"],
      [slot |-> "_set", page |-> "Fire_Protection_Set"]>>

H_A_b ==
    <<"/", "w", "i", "k", "i", "/", "A", "_", "b">>

H_A_sp_b ==
    <<"/", "w", "i", "k", "i", "/", "A", " ", "b">>

H_C_frag ==
    <<"/", "w", "i", "k", "i", "/", "C", "#", "x">>

H_File ==
    <<"/", "w", "i", "k", "i", "/", "F", "i", "l", "e", ":", "x">>

H_Main ==
    <<"/", "w", "i", "k", "i", "/", "M", "a", "i", "n", "_", "P", "a", "g", "e">>

H_ext ==
    <<"/", "x">>

\* the hrefs on the pages of SEEDS, in a wiki with links and in one without
WikiFull ==
    <<{H_A_b, H_File, H_Main}, {H_A_b, H_C_frag, H_ext}, {H_A_sp_b, H_C_frag, H_A_b}>>

WikiEmpty ==
    <<{}, {}, {}>>

Wikis ==
    {WikiFull, WikiEmpty}

\* the slot recorded for a title first seen under a seed
SlotFor(seedSlot) ==
    IF seedSlot = "_set" THEN NoSlot ELSE seedSlot

\* a later seed overwrites the slot an earlier seed recorded
RECURSIVE MergeSeeds_LastWins(_, _, _)
MergeSeeds_LastWins(pages, k, titles) ==
    IF k > Len(SEEDS) THEN titles
    ELSE LET found == {title_from_href(h) : h \in pages[k]} \ {<<>>}
         IN  MergeSeeds_LastWins(pages, k + 1,
                 [t \in DOMAIN titles \cup found |->
                     IF t \in found THEN SlotFor(SEEDS[k].slot)
                     ELSE titles[t]])

\* the loop of build_titles over SEEDS[k..]: titles is the dict title -> slot
RECURSIVE MergeSeeds(_, _, _)
MergeSeeds(pages, k, titles) ==
    IF k > Len(SEEDS) THEN titles
    ELSE LET found == {title_from_href(h) : h \in pages[k]} \ {<<>>}
             new   == found \ DOMAIN titles
         IN  MergeSeeds(pages, k + 1,
                 [t \in DOMAIN titles \cup new |->
                     IF t \in DOMAIN titles THEN titles[t]
                     ELSE SlotFor(SEEDS[k].slot)])

EmptyDict ==
    [k \in {} |-> 0]

\* build_titles(): pages[k] is the set of hrefs on the page of SEEDS[k]
build_titles(pages) ==
    LET titles == MergeSeeds(pages, 1, EmptyDict)
        order  == Sorted(DOMAIN titles)
    IN  [k \in DOMAIN order |-> [title |-> order[k], slot |-> titles[order[k]]]]

(***************************************************************************)
(* The crawl: main() of build_eq_items.py, one invocation per process.     *)
(***************************************************************************)
MaxBatch ==
    2

MaxClock ==
    1

\* at most this many invocations are killed
MaxKills ==
    1

\* at most this many invocations start while another one runs
MaxOverlap ==
    1

DefaultBatch ==
    60

NoTime ==
    -1

Procs ==
    {1, 2}

\* page texts a title fetch can return
T_fire ==
    <<"Y", "o", "u", " ", "s", "e", "e", " ", "f", "i", "r", "e", " ", "5", "%">>

T_ice ==
    <<"I", "t", " ", "w", "e", "i", "g", "h", "s", " ", "i", "c", "e", "-", "2", "%">>

T_plain ==
    <<"Y", "o", "u", " ", "s", "e", "e", " ", "a", " ", "h", "a", "t">>

T_both ==
    <<"B", "e", "s", "t", "i", "a", "r", "y", " ", "P", "r", "o", "t", "e", "c", "t", "i", "o", "n", " ", "f", "i", "r", "e", " ", "5", "%">>

T_other ==
    <<"A", "r", "m", ":", " ", "5", " ", "f", "i", "r", "e", " ", "3", "%">>

PageTexts ==
    <<T_fire, T_ice, T_plain, T_both, T_other>>

\* parse_item on each of the page texts
ParsedTexts ==
    [o \in DOMAIN PageTexts |-> parse_item(PageTexts[o])]

\* outcome 0 of a fetch is the exception raised by api_parse_html
FetchFailed ==
    0

Outcomes ==
    {FetchFailed} \cup DOMAIN PageTexts

VARIABLES
    titlesFile,   \* data/eq_titles.json; <<>> when absent (both fail "if not titles")
    stateFile,    \* data/eq_state.json: [exists, data]
    itemsFile,    \* data/eq_items.json; <<>> when absent
    clock,        \* int(time.time())
    pc,           \* per process: "idle", "loop", "saveState"
    loc,          \* per process: the local variables of main()
    exit,         \* per process: how its last invocation ended
    obs           \* observations of the run: failed fetches, killed window, overlap

vars ==
    <<titlesFile, stateFile, itemsFile, clock, pc, loc, exit, obs>>

Min(a, b) ==
    IF a <= b THEN a ELSE b

DictGet(d, k, default) ==
    IF k \in DOMAIN d THEN d[k] ELSE default

DictPut(d, k, v) ==
    [x \in DOMAIN d \cup {k} |-> IF x = k THEN v ELSE d[x]]

\* the default of load_json(state_path, {...})
DefaultState(now) ==
    [k \in {"index", "batchSize", "createdAt", "lastRun"} |->
        CASE k = "index" -> 0
          [] k = "batchSize" -> DefaultBatch
          [] k = "createdAt" -> now
          [] k = "lastRun" -> NoTime]

\* load_json(state_path, default)
LoadState(now) ==
    IF stateFile.exists THEN stateFile.data ELSE DefaultState(now)

\* the known set built from the display names instead of the sources
Existing_Names(items) ==
    {Strip(items[k].name) : k \in DOMAIN items}

\* the known set not seeded from the loaded catalog
Existing_Empty(items) ==
    {}

\* existing = set((it.get("source") or it.get("name") or "").strip() for it in items)
Existing(items) ==
    {Strip(IF items[k].source # <<>> THEN items[k].source ELSE items[k].name) :
        k \in DOMAIN items}

\* end = min(len(titles), start + batch)
WindowEnd(n, start, batch) ==
    Min(n, start + batch)

\* range(start, end)
PyRange(a, b) ==
    {k \in a..(b - 1) : TRUE}

NoWindow ==
    [start |-> -1, end |-> -1, handled |-> 0]

IdleLoc ==
    [titles |-> <<>>, state |-> EmptyDict, items |-> <<>>, existing |-> {},
     start |-> 0, end |-> 0, i |-> 0,
     processed |-> 0, added |-> 0, skipped_non_item |-> 0,
     fetched |-> EmptyDict, items0 |-> <<>>]

Init ==
    /\ titlesFile = <<>>
    /\ itemsFile = <<>>
    /\ stateFile \in
         {[exists |-> FALSE, data |-> EmptyDict]} \cup
         {[exists |-> TRUE,
           data |-> [k \in {"index", "batchSize"} |-> IF k = "index" THEN 0 ELSE b]] :
             b \in 1..MaxBatch}
    /\ clock = 0
    /\ pc = [p \in Procs |-> "idle"]
    /\ loc = [p \in Procs |-> IdleLoc]
    /\ exit = [p \in Procs |-> "none"]
    /\ obs = [failedUpTo |-> 0, overlaps |-> 0, kills |-> 0,
              killed |-> NoWindow,
              maxCursor |-> 0, everSources |-> {}]

\* time passes between two readings of time.time()
Tick ==
    /\ clock < MaxClock
    /\ clock' = clock + 1
    /\ UNCHANGED <<titlesFile, stateFile, itemsFile, pc, loc, exit, obs>>

\* lines 185-201: the local variables of main() when the loop is entered
LocalsAtLoop(titles, state, items) ==
    LET start == DictGet(state, "index", 0)
        batch == DictGet(state, "batchSize", DefaultBatch)
    IN  [titles |-> titles, state |-> state, items |-> items,
         existing |-> Existing(items),
         start |-> start, end |-> WindowEnd(Len(titles), start, batch),
         i |-> start,
         processed |-> 0, added |-> 0, skipped_non_item |-> 0,
         fetched |-> EmptyDict, items0 |-> items]

\* main() up to the loop, with the title list titles
Enter(p, titles) ==
        /\ pc' = [pc EXCEPT ![p] = "loop"]
        /\ loc' = [loc EXCEPT ![p] = LocalsAtLoop(titles, LoadState(clock), itemsFile)]
        /\ exit' = [exit EXCEPT ![p] = "none"]
        /\ obs' = [obs EXCEPT
              !.overlaps = IF \E q \in Procs \ {p} : pc[q] # "idle" THEN @ + 1 ELSE @]

\* main(), lines 176-201, the title list being on disk
Start(p) ==
    /\ pc[p] = "idle"
    /\ titlesFile # <<>>
    /\ Enter(p, titlesFile)
    /\ UNCHANGED <<titlesFile, stateFile, itemsFile, clock>>

\* main(), lines 176-201, the title list missing or empty: build_titles() and save
StartDiscover(p) ==
    /\ pc[p] = "idle"
    /\ titlesFile = <<>>
    /\ \E pages \in Wikis :
          /\ titlesFile' = build_titles(pages)
          /\ Enter(p, build_titles(pages))
    /\ UNCHANGED <<stateFile, itemsFile, clock>>

\* the titles of the seed pages fetched before the failure are saved
DiscoverFail_SavesPartial(p) ==
    /\ pc[p] = "idle"
    /\ titlesFile = <<>>
    /\ \E pages \in Wikis, k \in DOMAIN SEEDS :
          titlesFile' = build_titles([h \in DOMAIN SEEDS |->
                                         IF h < k THEN pages[h] ELSE {}])
    /\ exit' = [exit EXCEPT ![p] = "error"]
    /\ UNCHANGED <<stateFile, itemsFile, clock, pc, loc, obs>>

\* build_titles(): api_parse_html raises on a seed page and main() dies
DiscoverFail(p) ==
    /\ pc[p] = "idle"
    /\ titlesFile = <<>>
    /\ exit' = [exit EXCEPT ![p] = "error"]
    /\ UNCHANGED <<titlesFile, stateFile, itemsFile, clock, pc, loc, obs>>

\* titles[i] (Python indexes from 0)
TitleAt(titles, i) ==
    titles[i + 1]

\* the catalog entry appended at lines 227-235
Entry(t, slot, meta) ==
    [name |-> NameOf(t), slot |-> slot, level |-> meta.level, voc |-> meta.voc,
     res |-> meta.res, imbueSlots |-> meta.imbueSlots, source |-> SourceOf(t)]

\* a failed fetch ends the loop ("break" for "continue")
AfterFailure_Abort(i, end) ==
    end

\* the index of the loop after a failed fetch ("continue")
AfterFailure(i, end) ==
    i + 1

\* a failed fetch counted as processed
OnFetchFailure_Counted(l) ==
    [l EXCEPT !.state = DictPut(@, "index", l.i + 1),
              !.processed = @ + 1,
              !.i = AfterFailure(l.i, l.end)]

\* lines 209-211: the except branch
OnFetchFailure(l) ==
    [l EXCEPT !.state = DictPut(@, "index", l.i + 1),
              !.i = AfterFailure(l.i, l.end)]

\* a known source has its entry refreshed from the new page text
AppendIfNew_Refresh(l, t, slot, meta) ==
    IF meta.res = EmptyRes THEN l
    ELSE IF SourceOf(t) \in l.existing
    THEN [l EXCEPT !.items = [k \in DOMAIN l.items |->
                                 IF l.items[k].source = SourceOf(t)
                                 THEN Entry(t, slot, meta) ELSE l.items[k]]]
    ELSE [l EXCEPT !.items = Append(@, Entry(t, slot, meta)),
                   !.existing = @ \cup {SourceOf(t)},
                   !.added = @ + 1]

\* the entry appended without the membership test
AppendIfNew_NoDedup(l, t, slot, meta) ==
    IF meta.res = EmptyRes THEN l
    ELSE [l EXCEPT !.items = Append(@, Entry(t, slot, meta)),
                   !.existing = @ \cup {SourceOf(t)},
                   !.added = @ + 1]

\* the entry appended although no resistance was extracted
AppendIfNew_KeepEmpty(l, t, slot, meta) ==
    IF SourceOf(t) \in l.existing THEN l
    ELSE [l EXCEPT !.items = Append(@, Entry(t, slot, meta)),
                   !.existing = @ \cup {SourceOf(t)},
                   !.added = @ + 1]

\* lines 220-237: record the extracted meta of title t unless empty or known
AppendIfNew(l, t, slot, meta) ==
    IF meta.res = EmptyRes THEN l
    ELSE IF SourceOf(t) \in l.existing THEN l
    ELSE [l EXCEPT !.items = Append(@, Entry(t, slot, meta)),
                   !.existing = @ \cup {SourceOf(t)},
                   !.added = @ + 1]

\* one iteration of the loop, lines 203-237, the fetch having outcome o
Iterate(l, o) ==
    LET t    == TitleAt(l.titles, l.i).title
        slot == IF TitleAt(l.titles, l.i).slot = NoSlot THEN "unknown"
                ELSE TitleAt(l.titles, l.i).slot
        l1   == [l EXCEPT !.fetched = DictPut(@, l.i, o)]
    IN  IF o = FetchFailed
        THEN OnFetchFailure(l1)
        ELSE LET meta == ParsedTexts[o]
                 l2   == [l1 EXCEPT !.processed = @ + 1, !.i = @ + 1]
             IN  IF meta.none THEN [l2 EXCEPT !.skipped_non_item = @ + 1]
                 ELSE AppendIfNew(l2, t, slot, meta)

Fetch(p) ==
    /\ pc[p] = "loop"
    /\ loc[p].i < loc[p].end
    /\ \E o \in Outcomes :
          /\ loc' = [loc EXCEPT ![p] = Iterate(loc[p], o)]
          /\ obs' = [obs EXCEPT
                !.failedUpTo = IF o = FetchFailed /\ loc[p].i + 1 > @
                               THEN loc[p].i + 1 ELSE @]
    /\ UNCHANGED <<titlesFile, stateFile, itemsFile, clock, pc, exit>>

\* the cursor set to the length of the window instead of its end
FinalState_IndexWindowLen(l, now) ==
    LET s1 == DictPut(l.state, "index", l.end - l.start)
        s2 == DictPut(s1, "lastRun", now)
        s3 == DictPut(s2, "lastAdded", l.added)
        s4 == DictPut(s3, "lastProcessed", l.processed)
        s5 == DictPut(s4, "lastSkippedNonItem", l.skipped_non_item)
        s6 == DictPut(s5, "totalTitles", Len(l.titles))
    IN  DictPut(s6, "totalItems", Len(l.items))

\* the statistics left alone when the window was empty
FinalState_KeepStats(l, now) ==
    LET s1 == DictPut(l.state, "index", l.end)
        s2 == DictPut(s1, "lastRun", now)
    IN  IF l.start >= l.end /\ "lastAdded" \in DOMAIN l.state THEN s2
        ELSE LET s3 == DictPut(s2, "lastAdded", l.added)
                 s4 == DictPut(s3, "lastProcessed", l.processed)
                 s5 == DictPut(s4, "lastSkippedNonItem", l.skipped_non_item)
                 s6 == DictPut(s5, "totalTitles", Len(l.titles))
             IN  DictPut(s6, "totalItems", Len(l.items))

\* totalItems counts the entries of this batch only
FinalState_TotalAdded(l, now) ==
    LET s1 == DictPut(l.state, "index", l.end)
        s2 == DictPut(s1, "lastRun", now)
        s3 == DictPut(s2, "lastAdded", l.added)
        s4 == DictPut(s3, "lastProcessed", l.processed)
        s5 == DictPut(s4, "lastSkippedNonItem", l.skipped_non_item)
        s6 == DictPut(s5, "totalTitles", Len(l.titles))
    IN  DictPut(s6, "totalItems", l.added)

\* line 239 left out: the cursor stays where the except branch put it
FinalState_NoIndex(l, now) ==
    LET s2 == DictPut(l.state, "lastRun", now)
        s3 == DictPut(s2, "lastAdded", l.added)
        s4 == DictPut(s3, "lastProcessed", l.processed)
        s5 == DictPut(s4, "lastSkippedNonItem", l.skipped_non_item)
        s6 == DictPut(s5, "totalTitles", Len(l.titles))
    IN  DictPut(s6, "totalItems", Len(l.items))

\* lines 239-245: the state dict after the loop
FinalState(l, now) ==
    LET s1 == DictPut(l.state, "index", l.end)
        s2 == DictPut(s1, "lastRun", now)
        s3 == DictPut(s2, "lastAdded", l.added)
        s4 == DictPut(s3, "lastProcessed", l.processed)
        s5 == DictPut(s4, "lastSkippedNonItem", l.skipped_non_item)
        s6 == DictPut(s5, "totalTitles", Len(l.titles))
    IN  DictPut(s6, "totalItems", Len(l.items))

\* only the entries of this batch are written
CatalogToWrite_NewOnly(l) ==
    SubSeq(l.items, Len(l.items0) + 1, Len(l.items))

\* what line 247 writes to data/eq_items.json
CatalogToWrite(l) ==
    l.items

Sources(items) ==
    {items[k].source : k \in DOMAIN items}

\* the loop is over: lines 239-247, the state dict and save_json(items_path, items)
SaveItems(p) ==
    /\ pc[p] = "loop"
    /\ loc[p].i >= loc[p].end
    /\ itemsFile' = CatalogToWrite(loc[p])
    /\ loc' = [loc EXCEPT ![p].state = FinalState(loc[p], clock)]
    /\ pc' = [pc EXCEPT ![p] = "saveState"]
    /\ obs' = [obs EXCEPT !.everSources = @ \cup Sources(itemsFile')]
    /\ UNCHANGED <<titlesFile, stateFile, clock, exit>>

\* the persisted cursor
Cursor(sf) ==
    IF sf.exists THEN DictGet(sf.data, "index", 0) ELSE 0

\* line 248 and the end of main(): save_json(state_path, state), print, exit
SaveState(p) ==
    /\ pc[p] = "saveState"
    /\ stateFile' = [exists |-> TRUE, data |-> loc[p].state]
    /\ pc' = [pc EXCEPT ![p] = "idle"]
    /\ loc' = [loc EXCEPT ![p] = IdleLoc]
    /\ exit' = [exit EXCEPT ![p] = "ok"]
    /\ obs' = [obs EXCEPT
          !.killed = NoWindow,
          !.maxCursor = IF Cursor(stateFile') > @ THEN Cursor(stateFile') ELSE @]
    /\ UNCHANGED <<titlesFile, itemsFile, clock>>

\* the process is killed from outside while main() runs
Kill(p) ==
    /\ pc[p] # "idle"
    /\ obs.kills < MaxKills
    /\ pc' = [pc EXCEPT ![p] = "idle"]
    /\ loc' = [loc EXCEPT ![p] = IdleLoc]
    /\ exit' = [exit EXCEPT ![p] = "killed"]
    /\ obs' = [obs EXCEPT
          !.kills = @ + 1,
          !.killed = IF pc[p] = "loop"
                     THEN [start |-> loc[p].start, end |-> loc[p].end,
                           handled |-> loc[p].i - loc[p].start]
                     ELSE NoWindow]
    /\ UNCHANGED <<titlesFile, stateFile, itemsFile, clock>>

AllIdle ==
    \A q \in Procs : pc[q] = "idle"

\* one invocation at a time, none killed
NextSeq ==
    \/ Tick
    \/ AllIdle /\ Start(1)
    \/ AllIdle /\ StartDiscover(1)
    \/ AllIdle /\ DiscoverFail(1)
    \/ Fetch(1)
    \/ SaveItems(1)
    \/ SaveState(1)

Spec ==
    Init /\ [][NextSeq]_vars

\* one invocation at a time, killed at any point, within one second
NextKill ==
    \/ AllIdle /\ Start(1)
    \/ AllIdle /\ StartDiscover(1)
    \/ AllIdle /\ DiscoverFail(1)
    \/ Fetch(1)
    \/ SaveItems(1)
    \/ SaveState(1)
    \/ Kill(1)

SpecKill ==
    Init /\ [][NextKill]_vars

MayStart(p) ==
    (\E q \in Procs \ {p} : pc[q] # "idle") => obs.overlaps < MaxOverlap

\* invocations that may overlap, none killed, within one second
NextConc ==
    \/ \E p \in Procs :
          \/ MayStart(p) /\ Start(p)
          \/ MayStart(p) /\ StartDiscover(p)
          \/ MayStart(p) /\ DiscoverFail(p)
          \/ Fetch(p)
          \/ SaveItems(p)
          \/ SaveState(p)

\* the overlapping invocations are explored for windows of one title
InitConc ==
    /\ Init
    /\ stateFile.exists
    /\ stateFile.data["batchSize"] = 1

SpecConc ==
    InitConc /\ [][NextConc]_vars

(***************************************************************************)
(* Properties.                                                             *)
(***************************************************************************)
IsPrefix(a, b) ==
    Len(a) <= Len(b) /\ SubSeq(b, 1, Len(a)) = a

UniqueSources(items) ==
    \A j, k \in DOMAIN items : j # k => items[j].source # items[k].source

\* the outcomes of the fetches of an invocation that returned a text
Succeeded(l) ==
    {j \in DOMAIN l.fetched : l.fetched[j] # FetchFailed}

\* the two signals of the classifier on each page text
CreatureSignal ==
    [o \in DOMAIN PageTexts |-> looks_like_creature(PageTexts[o])]

ItemSignal ==
    [o \in DOMAIN PageTexts |-> looks_like_item(PageTexts[o])]

\* C1: from index 0 and a positive batchSize, whatever the fetch outcomes, the
\* persisted cursor never decreases and never exceeds the number of titles.
C1_CursorMonotoneBounded ==
    [][/\ Cursor(stateFile') >= Cursor(stateFile)
       /\ Cursor(stateFile') <= Len(titlesFile')]_vars

\* an invocation ended with the cursor inside the list, after a window that
\* held a failed fetch and an added item
C1_Witness ==
    /\ exit[1] = "ok"
    /\ Cursor(stateFile) > 0
    /\ Cursor(stateFile) < Len(titlesFile)
    /\ obs.failedUpTo > 0
    /\ Len(itemsFile) > 0

\* C2: no two entries of the catalog, persisted or being built, have the same
\* source, in every state of sequential invocations from an empty catalog.
C2_UniqueSources ==
    /\ UniqueSources(itemsFile)
    /\ \A p \in Procs : UniqueSources(loc[p].items)

\* a title already in the catalog was fetched again as an item with
\* resistances, and was not appended a second time
C2_Witness ==
    /\ pc[1] = "saveState"
    /\ \E j \in Succeeded(loc[1]) :
          /\ ~ParsedTexts[loc[1].fetched[j]].none
          /\ ParsedTexts[loc[1].fetched[j]].res # EmptyRes
          /\ SourceOf(TitleAt(loc[1].titles, j).title) \in Sources(loc[1].items0)
    /\ UniqueSources(itemsFile)

\* the loop run to its end with the fetch outcomes outs
RECURSIVE RunWindow(_, _)
RunWindow(l, outs) ==
    IF l.i >= l.end THEN l ELSE RunWindow(Iterate(l, outs[l.i]), outs)

\* C3: a window processed a second time, from the same cursor, with the catalog
\* the first run left and the same fetch outcomes, appends nothing, reports
\* added = 0 and leaves the catalog as the first run left it.
C3_BatchIdempotent ==
    \A p \in Procs :
        (pc[p] = "loop" /\ loc[p].i = loc[p].start) =>
            \A outs \in [PyRange(loc[p].start, loc[p].end) -> Outcomes] :
                LET r1 == RunWindow(loc[p], outs)
                    r2 == RunWindow(LocalsAtLoop(loc[p].titles, loc[p].state,
                                                 CatalogToWrite(r1)), outs)
                IN  /\ r2.added = 0
                    /\ CatalogToWrite(r2) = CatalogToWrite(r1)

\* an invocation enters a window whose first run can add an entry to a
\* catalog that already holds one
C3_Witness ==
    /\ pc[1] = "loop"
    /\ loc[1].i = loc[1].start
    /\ Len(loc[1].items) > 0
    /\ \E outs \in [PyRange(loc[1].start, loc[1].end) -> Outcomes] :
          RunWindow(loc[1], outs).added > 0

\* C4: the catalog is append-only: every step leaves the persisted catalog as
\* a prefix of the new one, also when a catalogued title is fetched again with
\* a different text.
C4_AppendOnly ==
    [][IsPrefix(itemsFile, itemsFile')]_vars

\* the catalog was written after a catalogued title had been fetched again
\* with a text giving other resistances, and its entry is the old one
C4_Witness ==
    /\ pc[1] = "saveState"
    /\ \E j \in Succeeded(loc[1]) : \E k \in DOMAIN loc[1].items0 :
          /\ ~ParsedTexts[loc[1].fetched[j]].none
          /\ ParsedTexts[loc[1].fetched[j]].res # EmptyRes
          /\ loc[1].items0[k].source = SourceOf(TitleAt(loc[1].titles, j).title)
          /\ loc[1].items0[k].res # ParsedTexts[loc[1].fetched[j]].res
          /\ k <= Len(itemsFile)
          /\ itemsFile[k] = loc[1].items0[k]

\* C5: a failed fetch does not abort the batch: the failed title adds nothing
\* to the counters or the catalog, the rest of the window is fetched, the
\* cursor ends just past the window, and no fetch ever targets a failed title
\* again.
C5_FailureSkipsOneTitle ==
    \A p \in Procs :
        LET l == loc[p]
        IN  /\ (pc[p] = "loop" /\ l.i < l.end) => l.i >= obs.failedUpTo
            /\ pc[p] # "idle" =>
                  /\ l.processed = Cardinality(Succeeded(l))
                  /\ l.added + l.skipped_non_item <= l.processed
                  /\ \A j \in DOMAIN l.fetched \ Succeeded(l) :
                        SourceOf(TitleAt(l.titles, j).title) \notin Sources(l.items)
            /\ pc[p] = "saveState" =>
                  /\ DOMAIN l.fetched = PyRange(l.start, l.end)
                  /\ l.state["index"] = l.end
                  /\ l.end = Min(Len(l.titles),
                                 l.start + DictGet(l.state, "batchSize", DefaultBatch))

\* a window was finished in which a fetch failed and a later title was added
C5_Witness ==
    /\ pc[1] = "saveState"
    /\ \E j, k \in DOMAIN loc[1].fetched :
          /\ j < k
          /\ loc[1].fetched[j] = FetchFailed
          /\ SourceOf(TitleAt(loc[1].titles, k).title) \in Sources(loc[1].items)
    /\ loc[1].added > 0

\* the step that ends an invocation which found the cursor at the end of its
\* title list, a batch having been recorded before
EndsNoOpRun(p) ==
    /\ pc[p] = "saveState"
    /\ pc'[p] = "idle"
    /\ exit'[p] = "ok"
    /\ loc[p].start = Len(loc[p].titles)
    /\ stateFile.exists
    /\ "lastAdded" \in DOMAIN stateFile.data

\* C6 as stated: with the cursor at the number of titles an invocation
\* fetches nothing, leaves catalog and cursor alone and changes no field of
\* the persisted state but lastRun.
C6_OnlyLastRunChanges ==
    [][\A p \in Procs : EndsNoOpRun(p) =>
          /\ loc[p].fetched = EmptyDict
          /\ itemsFile = loc[p].items0
          /\ Cursor(stateFile') = Cursor(stateFile)
          /\ DOMAIN stateFile'.data = DOMAIN stateFile.data
          /\ \A k \in DOMAIN stateFile.data \ {"lastRun"} :
                stateFile'.data[k] = stateFile.data[k]]_vars

\* C6 amended: with the cursor at the number of titles an invocation fetches
\* no title, leaves catalog and cursor alone, refreshes lastRun and sets
\* lastAdded, lastProcessed and lastSkippedNonItem to 0; no other field of the
\* persisted state changes.
C6_NoOpResetsRunStatistics ==
    [][\A p \in Procs : EndsNoOpRun(p) =>
          /\ loc[p].fetched = EmptyDict
          /\ itemsFile = loc[p].items0
          /\ Cursor(stateFile') = Cursor(stateFile)
          /\ DOMAIN stateFile'.data = DOMAIN stateFile.data
          /\ stateFile'.data["lastRun"] >= stateFile.data["lastRun"]
          /\ stateFile'.data["lastRun"] <= clock
          /\ \A k \in DOMAIN stateFile.data \ {"lastRun"} :
                stateFile'.data[k] =
                    IF k \in {"lastAdded", "lastProcessed", "lastSkippedNonItem"}
                    THEN 0
                    ELSE stateFile.data[k]]_vars

\* a no-op invocation is about to persist its state after a batch that had
\* processed, skipped and added titles
C6_Witness ==
    /\ pc[1] = "saveState"
    /\ loc[1].start = Len(loc[1].titles)
    /\ Len(loc[1].titles) > 0
    /\ stateFile.exists
    /\ "lastAdded" \in DOMAIN stateFile.data
    /\ stateFile.data["lastAdded"] > 0
    /\ stateFile.data["lastSkippedNonItem"] > 0
    /\ loc[1].state["lastAdded"] = 0
    /\ loc[1].state["lastProcessed"] = 0

\* the titles before the persisted cursor
CrawledSources ==
    {SourceOf(TitleAt(titlesFile, i).title) :
        i \in {j \in PyRange(0, Cursor(stateFile)) : j < Len(titlesFile)}}

\* C7: catalog and crawl state are persisted atomically: with no invocation
\* running, the catalog never holds an entry of a window the persisted cursor
\* has not passed.
C7_AtomicPersist ==
    AllIdle => Sources(itemsFile) \subseteq CrawledSources

\* C8: an invocation killed inside its loop leaves the persisted cursor and
\* catalog as it found them, and the next invocation starts at the same cursor
\* and fetches every title of the killed window again.
C8_KilledWindowRefetched ==
    \A p \in Procs :
        /\ pc[p] = "loop" =>
              /\ itemsFile = loc[p].items0
              /\ Cursor(stateFile) = loc[p].start
        /\ (pc[p] # "idle" /\ obs.killed # NoWindow) =>
              /\ loc[p].start = obs.killed.start
              /\ loc[p].end >= obs.killed.end
              /\ pc[p] = "saveState" =>
                    PyRange(obs.killed.start, obs.killed.end) \subseteq DOMAIN loc[p].fetched

\* the invocation after one killed in a window it had partly handled has
\* finished its loop
C8_Witness ==
    /\ pc[1] = "saveState"
    /\ obs.killed # NoWindow
    /\ obs.killed.handled > 0
    /\ obs.killed.end > obs.killed.start + 1

CursorDecreased ==
    Cursor(stateFile) < obs.maxCursor

\* a source once written to the catalog is gone though the cursor passed its title
LostEntries ==
    (obs.everSources \ Sources(itemsFile)) \cap CrawledSources # {}

\* C9: nothing keeps two invocations from overlapping, and overlap can break
\* the invariants: a decreased cursor, entries lost behind the cursor or a
\* duplicated source occur only in runs where invocations overlapped; the
\* witness shows that they do occur.
C9_CorruptionOnlyByOverlap ==
    (CursorDecreased \/ LostEntries \/ ~UniqueSources(itemsFile)) => obs.overlaps > 0

\* both invocations have ended and an entry one of them wrote is lost, its
\* title being behind the cursor
C9_Witness ==
    /\ AllIdle
    /\ obs.overlaps > 0
    /\ LostEntries

\* C10: a page is accepted iff looks_like_creature is false and looks_like_item
\* is true: the fetched pages counted as non-items are exactly those, and a
\* page with both signals is rejected and gets no catalog entry.
C10_ClassifiedBySignals ==
    \A p \in Procs :
        pc[p] # "idle" =>
            LET l == loc[p]
                accepted(j) == ~CreatureSignal[l.fetched[j]] /\ ItemSignal[l.fetched[j]]
            IN  /\ l.skipped_non_item = Cardinality({j \in Succeeded(l) : ~accepted(j)})
                /\ \A j \in Succeeded(l) :
                      /\ ParsedTexts[l.fetched[j]].none <=> ~accepted(j)
                      /\ ~accepted(j) =>
                            SourceOf(TitleAt(l.titles, j).title) \notin Sources(l.items)

\* a page with both a creature and an item marker, and a resistance, was
\* fetched, counted as non-item and not recorded
C10_Witness ==
    /\ pc[1] = "saveState"
    /\ \E j \in Succeeded(loc[1]) :
          /\ CreatureSignal[loc[1].fetched[j]]
          /\ ItemSignal[loc[1].fetched[j]]
          /\ ExtractRes(PageTexts[loc[1].fetched[j]], 1, EmptyRes) # EmptyRes
          /\ SourceOf(TitleAt(loc[1].titles, j).title) \notin Sources(itemsFile)
    /\ loc[1].skipped_non_item > 0

\* the fetches of an invocation whose page is an item page without resistances
EmptyResistance(l) ==
    {j \in Succeeded(l) : /\ ~ParsedTexts[l.fetched[j]].none
                          /\ ParsedTexts[l.fetched[j]].res = EmptyRes}

\* the fetches of an invocation whose page was classified as not an item
NonItems(l) ==
    {j \in Succeeded(l) : ParsedTexts[l.fetched[j]].none}

\* C11: a title whose page is classified as an item but yields no resistance is
\* counted in processed, is counted neither in added nor in skipped_non_item,
\* and has no entry in the catalog, in memory or as written, afterwards.
C11_EmptyResistanceNotCatalogued ==
    \A p \in Procs : pc[p] # "idle" =>
        LET l == loc[p]
        IN  /\ l.processed = Cardinality(Succeeded(l))
            /\ l.skipped_non_item = Cardinality(NonItems(l))
            /\ l.added = Cardinality(Succeeded(l) \ (NonItems(l) \cup EmptyResistance(l)))
            /\ \A j \in EmptyResistance(l) :
                  /\ SourceOf(TitleAt(l.titles, j).title) \notin Sources(l.items)
                  /\ pc[p] = "saveState" =>
                        SourceOf(TitleAt(l.titles, j).title) \notin Sources(itemsFile)

C11_Witness ==
    /\ pc[1] = "saveState"
    /\ EmptyResistance(loc[1]) # {}
    /\ loc[1].added > 0
    /\ loc[1].processed > loc[1].added + loc[1].skipped_non_item

\* C12: the statistics an invocation persists describe its window: lastProcessed
\* is the number of window titles whose fetch succeeded, lastSkippedNonItem the
\* number of those classified as not an item, lastAdded the number of entries
\* appended to the catalog, lastAdded + lastSkippedNonItem <= lastProcessed <=
\* the size of the window, and totalItems is the size of the persisted catalog.
C12_StatisticsDescribeWindow ==
    [][\A p \in Procs : pc[p] = "saveState" /\ exit'[p] = "ok" =>
          LET l == loc[p]
              d == stateFile'.data
          IN  /\ DOMAIN l.fetched = PyRange(l.start, l.end)
              /\ d["lastProcessed"] = Cardinality(Succeeded(l))
              /\ d["lastSkippedNonItem"] = Cardinality(NonItems(l))
              /\ d["lastAdded"] = Len(itemsFile') - Len(l.items0)
              /\ IsPrefix(l.items0, itemsFile')
              /\ d["lastAdded"] + d["lastSkippedNonItem"] <= d["lastProcessed"]
              /\ d["lastProcessed"] <= l.end - l.start
              /\ d["totalItems"] = Len(itemsFile')]_vars

\* an invocation has completed whose window held a new entry and a page that
\* was fetched and neither added nor skipped, the catalog holding older entries
C12_Witness ==
    /\ AllIdle
    /\ exit[1] = "ok"
    /\ stateFile.data["lastAdded"] > 0
    /\ stateFile.data["lastProcessed"] >
          stateFile.data["lastAdded"] + stateFile.data["lastSkippedNonItem"]
    /\ stateFile.data["totalItems"] > stateFile.data["lastAdded"]
    /\ stateFile.data["totalItems"] = Len(itemsFile)

(***************************************************************************)
(* Title discovery: build_titles() of build_eq_items.py on any seed pages, *)
(* and main() of build_eq_titles.py, which writes the same file.           *)
(***************************************************************************)
\* SLOT_CATEGORIES, abridged to two categories
SLOT_CATEGORIES ==
    <<[slot |-> "helmet", category |-> "Helmets"],
      [slot |-> "armor", category |-> "Armors"]>>

\* the answers of the API for one category, one batch of member titles per
\* request, the titles being "A b" and "C"
MemberBatches ==
    LET A_b == <<"A", " ", "b">>
        C   == <<"C">>
    IN  {<<<<>>>>, <<<<A_b>>>>, <<<<C>>>>, <<<<A_b, C>>>>,
         <<<<C, A_b>>>>, <<<<C>>, <<A_b>>>>}

\* list_category_members(): the titles of the batches, in the order received
RECURSIVE list_category_members(_)
list_category_members(batches) ==
    IF batches = <<>> THEN <<>>
    ELSE Head(batches) \o list_category_members(Tail(batches))

\* lines 78-82 of build_eq_titles.py: seen is the set of the titles of items
RECURSIVE AddMembers(_, _, _)
AddMembers(items, titles, slot) ==
    IF titles = <<>> THEN items
    ELSE IF Head(titles) \in {items[k].title : k \in DOMAIN items}
    THEN AddMembers(items, Tail(titles), slot)
    ELSE AddMembers(Append(items, [title |-> Head(titles), slot |-> slot]),
                    Tail(titles), slot)

\* lines 76-84 of build_eq_titles.py: the loop over SLOT_CATEGORIES[k..]
RECURSIVE CollectCategories(_, _, _)
CollectCategories(answers, k, items) ==
    IF k > Len(SLOT_CATEGORIES) THEN items
    ELSE CollectCategories(answers, k + 1,
             AddMembers(items, list_category_members(answers[k]),
                        SLOT_CATEGORIES[k].slot))

\* main() of build_eq_titles.py: the document dumped to data/eq_titles.json
build_eq_titles_main(answers, now) ==
    LET items == CollectCategories(answers, 1, <<>>)
    IN  [generatedAt |-> now,
         source |-> "tibia.fandom.com",
         items |-> items,
         slots |-> [s \in {SLOT_CATEGORIES[k].slot : k \in DOMAIN SLOT_CATEGORIES} |->
                       Cardinality({j \in DOMAIN items : items[j].slot = s})],
         count |-> Len(items)]

\* obs.writer is the program that wrote data/eq_titles.json last, obs.input what
\* the wiki answered to it, obs.tool the exit of build_eq_titles.py
InitTitles ==
    /\ titlesFile = <<>>
    /\ itemsFile = <<>>
    /\ stateFile \in
         {[exists |-> FALSE, data |-> EmptyDict]} \cup
         {[exists |-> TRUE,
           data |-> [k \in {"index", "batchSize"} |-> IF k = "index" THEN 0 ELSE b]] :
             b \in 1..MaxBatch}
    /\ clock = 0
    /\ pc = [p \in Procs |-> "idle"]
    /\ loc = [p \in Procs |-> IdleLoc]
    /\ exit = [p \in Procs |-> "none"]
    /\ obs = [failedUpTo |-> 0, overlaps |-> 0, kills |-> 0,
              killed |-> NoWindow,
              maxCursor |-> 0, everSources |-> {},
              writer |-> "none", input |-> <<>>, tool |-> "none"]

\* the file holds the list of build_eq_items.py, or is missing
ListOnDisk ==
    obs.writer # "build_eq_titles"

\* main() of build_eq_items.py, lines 176-201, the title list missing or empty:
\* build_titles() on any seed pages, and save
StartDiscoverFrom(p) ==
    /\ pc[p] = "idle"
    /\ ListOnDisk
    /\ titlesFile = <<>>
    /\ \E pages \in [DOMAIN SEEDS -> SUBSET {H_A_b, H_A_sp_b, H_C_frag, H_File}] :
          /\ titlesFile' = build_titles(pages)
          /\ loc' = [loc EXCEPT ![p] =
                        LocalsAtLoop(build_titles(pages), LoadState(clock), itemsFile)]
          /\ obs' = [obs EXCEPT !.writer = "build_eq_items", !.input = pages]
    /\ pc' = [pc EXCEPT ![p] = "loop"]
    /\ exit' = [exit EXCEPT ![p] = "none"]
    /\ UNCHANGED <<stateFile, itemsFile, clock>>

\* build_eq_titles.py runs to its end and writes its document
TitlesTool ==
    /\ \E answers \in [DOMAIN SLOT_CATEGORIES -> MemberBatches] :
          /\ titlesFile' = build_eq_titles_main(answers, clock)
          /\ obs' = [obs EXCEPT !.writer = "build_eq_titles", !.input = answers,
                                !.tool = "ok"]
    /\ UNCHANGED <<stateFile, itemsFile, clock, pc, loc, exit>>

\* build_eq_titles.py: api_get raises and the program dies before line 90
TitlesToolFail ==
    /\ obs' = [obs EXCEPT !.tool = "error"]
    /\ UNCHANGED <<titlesFile, stateFile, itemsFile, clock, pc, loc, exit>>

\* main() of build_eq_items.py on the document of build_eq_titles.py: the dict
\* is not empty, so it is kept (line 181); len(titles) is its number of keys
\* (line 197); titles[i] at line 204, outside the try, raises KeyError
StartOnDict(p) ==
    /\ pc[p] = "idle"
    /\ ~ListOnDisk
    /\ LET state == LoadState(clock)
           start == DictGet(state, "index", 0)
           batch == DictGet(state, "batchSize", DefaultBatch)
       IN  start < WindowEnd(Cardinality(DOMAIN titlesFile), start, batch)
    /\ exit' = [exit EXCEPT ![p] = "error"]
    /\ UNCHANGED <<titlesFile, stateFile, itemsFile, clock, pc, loc, obs>>

\* the two discoverers and the start of the crawl on what they wrote
NextTitles ==
    \/ AllIdle /\ StartDiscoverFrom(1)
    \/ AllIdle /\ ListOnDisk /\ DiscoverFail(1)
    \/ AllIdle /\ TitlesTool
    \/ AllIdle /\ TitlesToolFail
    \/ AllIdle /\ StartOnDict(1)

SpecTitles ==
    InitTitles /\ [][NextTitles]_vars

\* C13: discovery merges with first-assignment-wins: each discovered title
\* appears exactly once, with the slot of the first seed (or category), in list
\* order, that links to it, no slot for a set seed; a later seed, a set seed
\* included, never changes a slot already recorded.
C13_FirstAssignmentWins ==
    LET FirstWins(records, offered, slotOf) ==
            /\ \A i, j \in DOMAIN records :
                  i # j => records[i].title # records[j].title
            /\ {records[j].title : j \in DOMAIN records} =
                  UNION {offered[k] : k \in DOMAIN offered}
            /\ \A j \in DOMAIN records :
                  \E k \in DOMAIN offered :
                      /\ records[j].title \in offered[k]
                      /\ \A h \in 1..(k - 1) : records[j].title \notin offered[h]
                      /\ records[j].slot = slotOf[k]
    IN  /\ obs.writer = "build_eq_items" =>
              FirstWins(titlesFile,
                        [k \in DOMAIN SEEDS |->
                            {title_from_href(h) : h \in obs.input[k]} \ {<<>>}],
                        [k \in DOMAIN SEEDS |->
                            IF SEEDS[k].slot = "_set" THEN NoSlot ELSE SEEDS[k].slot])
        /\ obs.writer = "build_eq_titles" =>
              FirstWins(titlesFile["items"],
                        [k \in DOMAIN SLOT_CATEGORIES |->
                            Range(list_category_members(obs.input[k]))],
                        [k \in DOMAIN SLOT_CATEGORIES |-> SLOT_CATEGORIES[k].slot])

\* a set page links to a title a slot page linked to before, and to one no slot
\* page links to
C13_Witness ==
    /\ obs.writer = "build_eq_items"
    /\ \E i, j \in DOMAIN titlesFile :
          /\ titlesFile[i].slot = "helmet"
          /\ \E h \in obs.input[2] : title_from_href(h) = titlesFile[i].title
          /\ \E h \in obs.input[3] : title_from_href(h) = titlesFile[i].title
          /\ titlesFile[j].slot = NoSlot

\* C14: the title list handed to the crawl is sorted lexicographically by
\* title, whatever the order in which the seed or category pages list their
\* links, for each of the two programs that write data/eq_titles.json.
C14_TitleListSorted ==
    LET SortedByTitle(records) ==
            \A i, j \in DOMAIN records :
                i < j => StrLess(records[i].title, records[j].title)
    IN  /\ obs.writer = "build_eq_items" => SortedByTitle(titlesFile)
        /\ obs.writer = "build_eq_titles" => SortedByTitle(titlesFile["items"])

\* C15: whichever program wrote data/eq_titles.json, a following invocation of
\* the crawl indexes it by cursor and ends without an unhandled error: the crawl
\* dies only of a failed seed fetch, the file being missing or an empty list.
C15_CrawlIndexesTitleList ==
    \A p \in Procs : exit[p] = "error" => ListOnDisk /\ titlesFile = <<>>

\* C16: a failed fetch of a seed page ends the invocation before any batch
\* processing: no title list, not even a partial one, no crawl state and no
\* catalog are written, so the cursor keeps its value and the next invocation
\* finds the title list missing and starts discovery again.
C16_SeedFailureWritesNothing ==
    [][\A p \in Procs : exit'[p] = "error" /\ exit[p] # "error" =>
          /\ titlesFile' = <<>>
          /\ titlesFile' = titlesFile
          /\ stateFile' = stateFile
          /\ itemsFile' = itemsFile
          /\ Cursor(stateFile') = Cursor(stateFile)
          /\ pc[p] = "idle" /\ pc'[p] = "idle"
          /\ loc'[p] = IdleLoc]_vars

\* an invocation died of a seed page after an earlier one had completed
C16_Witness ==
    /\ exit[1] = "error"
    /\ pc[1] = "idle"
    /\ titlesFile = <<>>
    /\ stateFile.exists
    /\ "lastRun" \in DOMAIN stateFile.data

(***************************************************************************)
(* parse_item on the texts made of a few phrases.                          *)
(***************************************************************************)
MaxWords ==
    3

\* the phrases a page text is made of: the item marker, the phrase of the
\* vocations, and "protection fire 5%", "fire -3%", "ice+2 %", "Knight", "druids"
Vocabulary ==
    {S_YouSee, S_wielded,
     <<"p", "r", "o", "t", "e", "c", "t", "i", "o", "n", " ", "f", "i", "r", "e", " ", "5", "%">>,
     <<"f", "i", "r", "e", " ", "-", "3", "%">>,
     <<"i", "c", "e", "+", "2", " ", "%">>,
     <<"K", "n", "i", "g", "h", "t">>,
     <<"d", "r", "u", "i", "d", "s">>}

\* " ".join(ws)
RECURSIVE Join(_)
Join(ws) ==
    IF Len(ws) = 1 THEN ws[1] ELSE ws[1] \o <<" ">> \o Join(Tail(ws))

TextInputs ==
    {Join(ws) : ws \in UNION {[1..n -> Vocabulary] : n \in 1..MaxWords}}

\* obs.text is the text of the fetched page, obs.meta what parse_item returned
InitText ==
    /\ titlesFile = <<>>
    /\ itemsFile = <<>>
    /\ stateFile = [exists |-> FALSE, data |-> EmptyDict]
    /\ clock = 0
    /\ pc = [p \in Procs |-> "idle"]
    /\ loc = [p \in Procs |-> IdleLoc]
    /\ exit = [p \in Procs |-> "none"]
    /\ \E t \in TextInputs :
          obs = [failedUpTo |-> 0, overlaps |-> 0, kills |-> 0,
                 killed |-> NoWindow,
                 maxCursor |-> 0, everSources |-> {},
                 text |-> t, parsed |-> FALSE, meta |-> NoneMeta]

\* parse_item, lines 135-170, on the text of the page
ParseText ==
    /\ ~obs.parsed
    /\ obs' = [obs EXCEPT !.parsed = TRUE, !.meta = parse_item(obs.text)]
    /\ UNCHANGED <<titlesFile, stateFile, itemsFile, clock, pc, loc, exit>>

SpecText ==
    InitText /\ [][ParseText]_vars

\* PROT_RE.finditer(text) from position pos: the matches, left to right
RECURSIVE ProtMatches(_, _)
ProtMatches(s, pos) ==
    IF pos > Len(s) THEN <<>>
    ELSE LET m == ProtMatchAt(s, pos)
         IN  IF m.ok THEN <<m>> \o ProtMatches(s, m.end)
             ELSE ProtMatches(s, pos + 1)

\* C18: resistance extraction is last-match-wins: the keys of the extracted
\* mapping are exactly the elements matched left to right in the text, all among
\* the seven elements, and each is mapped to the signed value of its last match.
C18_LastMatchWins ==
    obs.parsed /\ ~obs.meta.none =>
        LET ms  == ProtMatches(obs.text, 1)
            res == obs.meta.res
        IN  /\ DOMAIN res = {ms[k].el : k \in DOMAIN ms}
            /\ DOMAIN res \subseteq Range(ELEMENTS)
            /\ \A k \in DOMAIN ms :
                  (\A h \in DOMAIN ms : h > k => ms[h].el # ms[k].el)
                      => res[ms[k].el] = ms[k].val

\* a text with 'protection fire 5%' and then 'fire -3%' was parsed and gives
\* fire = -3
C18_Witness ==
    /\ obs.parsed
    /\ ~obs.meta.none
    /\ LET ms == ProtMatches(obs.text, 1)
       IN  /\ Len(ms) = 2
           /\ ms[1].el = "fire" /\ ms[1].val = 5
           /\ ms[2].el = "fire" /\ ms[2].val = -3
    /\ obs.meta.res["fire"] = -3

\* C17: without the phrase 'only be wielded properly by' the vocations are
\* {ANY}; with it they are exactly the vocation names that occur in the text
\* after the phrase, names occurring only before it not included, or {ANY} when
\* none occurs there.
C17_VocationsAfterPhrase ==
    LET Find(s, lit) ==
            IF Contains(s, lit)
            THEN CHOOSE i \in 1..(Len(s) + 1) :
                     /\ MatchExact(s, i, lit)
                     /\ \A h \in 1..(i - 1) : ~MatchExact(s, h, lit)
            ELSE 0
        NamesIn(s) ==
            (IF Contains(s, S_knight) THEN {"KNIGHT"} ELSE {})
            \cup (IF Contains(s, S_paladin) THEN {"PALADIN"} ELSE {})
            \cup (IF Contains(s, S_druid) THEN {"DRUID"} ELSE {})
            \cup (IF Contains(s, S_sorcerer) THEN {"SORCERER"} ELSE {})
            \cup (IF Contains(s, S_monk) THEN {"MONK"} ELSE {})
        low  == Lower(obs.text)
        at   == Find(low, S_wielded)
        rest == SubSeq(low, at + Len(S_wielded), Len(low))
    IN  obs.parsed /\ ~obs.meta.none =>
            Range(obs.meta.voc) =
               IF at = 0 \/ NamesIn(rest) = {} THEN {"ANY"} ELSE NamesIn(rest)

(***************************************************************************)
(* The scheduled job: invocations follow one another for ever, and an      *)
(* invocation that has started runs to its end.                            *)
(***************************************************************************)
SpecLive ==
    /\ Init /\ [][NextSeq]_vars
    /\ WF_vars(AllIdle /\ Start(1))
    /\ WF_vars(AllIdle /\ StartDiscover(1))
    /\ WF_vars(Fetch(1))
    /\ WF_vars(SaveItems(1))
    /\ WF_vars(SaveState(1))

\* the persisted batchSize, as main() reads it at line 196
BatchSize(sf) ==
    IF sf.exists THEN DictGet(sf.data, "batchSize", DefaultBatch) ELSE DefaultBatch

\* C19: the crawl always completes: an invocation that ends advances the
\* persisted cursor by exactly min(batchSize, totalTitles - cursor), whatever
\* happened to the titles of its window, and invocations that follow one
\* another eventually bring the cursor to the number of titles, where it stays.
C19_CrawlCompletes ==
    /\ [][\A p \in Procs : pc[p] = "saveState" /\ exit'[p] = "ok" =>
             Cursor(stateFile') = Cursor(stateFile)
                 + Min(BatchSize(stateFile), Len(titlesFile) - Cursor(stateFile))]_vars
    /\ <>[](stateFile.exists /\ Cursor(stateFile) = Len(titlesFile))

\* three titles were crawled in windows of two: the second invocation has ended
C19_Witness ==
    /\ AllIdle
    /\ exit[1] = "ok"
    /\ Len(titlesFile) = 3
    /\ stateFile.exists
    /\ BatchSize(stateFile) = 2
    /\ Cursor(stateFile) = Len(titlesFile)
    /\ stateFile.data["lastProcessed"] < 2

(***************************************************************************)
(* The crawl of a wiki that answers each title the same way every time,    *)
(* invocations being killed at any point.                                  *)
(***************************************************************************)
\* the indexes of the titles of the longest list
TitleIndexes ==
    PyRange(0, Len(build_titles(WikiFull)))

\* obs.web[i] is the outcome of every fetch of the title of index i
InitFixed ==
    /\ titlesFile = <<>>
    /\ itemsFile = <<>>
    /\ stateFile \in
         {[exists |-> FALSE, data |-> EmptyDict]} \cup
         {[exists |-> TRUE,
           data |-> [k \in {"index", "batchSize"} |-> IF k = "index" THEN 0 ELSE b]] :
             b \in 1..MaxBatch}
    /\ clock = 0
    /\ pc = [p \in Procs |-> "idle"]
    /\ loc = [p \in Procs |-> IdleLoc]
    /\ exit = [p \in Procs |-> "none"]
    /\ \E w \in [TitleIndexes -> Outcomes] :
          obs = [failedUpTo |-> 0, overlaps |-> 0, kills |-> 0,
                 killed |-> NoWindow,
                 maxCursor |-> 0, everSources |-> {},
                 web |-> w]

\* one iteration of the loop, the fetch having the outcome the wiki fixes
FetchFixed(p) ==
    /\ Fetch(p)
    /\ loc'[p].fetched[loc[p].i] = obs.web[loc[p].i]

NextFixed ==
    \/ AllIdle /\ Start(1)
    \/ AllIdle /\ StartDiscover(1)
    \/ AllIdle /\ DiscoverFail(1)
    \/ FetchFixed(1)
    \/ SaveItems(1)
    \/ SaveState(1)
    \/ Kill(1)

SpecFixed ==
    InitFixed /\ [][NextFixed]_vars

\* the catalog of one invocation over the whole list, from an empty catalog
NoKillCatalog(titles, web) ==
    LET state == DictPut(DictPut(EmptyDict, "index", 0), "batchSize", Len(titles) + 1)
    IN  CatalogToWrite(RunWindow(LocalsAtLoop(titles, state, <<>>), web))

\* C20: crash recovery preserves the result: with a fixed title list and a
\* fixed fetch outcome per title, a crawl run to completion, whether or not
\* invocations were killed in the loop or between the catalog write and the
\* state write, ends with the catalog of a crawl without kill: the same entries
\* in the same order, none twice.
C20_RecoveryPreservesCatalog ==
    (/\ AllIdle
     /\ exit[1] = "ok"
     /\ titlesFile # <<>>
     /\ Cursor(stateFile) = Len(titlesFile))
        => /\ itemsFile = NoKillCatalog(titlesFile, obs.web)
           /\ UniqueSources(itemsFile)

\* a crawl with a killed invocation has completed with two entries or more
C20_Witness ==
    /\ AllIdle
    /\ exit[1] = "ok"
    /\ titlesFile # <<>>
    /\ Cursor(stateFile) = Len(titlesFile)
    /\ obs.kills > 0
    /\ Len(itemsFile) >= 2
    /\ \E i \in TitleIndexes : obs.web[i] = FetchFailed

====
